---- MODULE Spec2Model ----
(***************************************************************************)
(* Model of the ID-card OCR pipeline: IDCardOCRProcessor (processor.py)    *)
(* and OCRService (ocr_service.py).                                        *)
(*                                                                         *)
(* Text is a sequence of one-character strings; the empty string is <<>>.  *)
(* A zone's fractional coordinates are held in thousandths (0.05 is 50),   *)
(* so zone['x'] * target_width is the exact rational x * target_width /    *)
(* 1000; for the frame sizes and the thousandths used here Python's float  *)
(* product truncates and rounds to the same integers as that rational.     *)
(*                                                                         *)
(* The collaborators that processor.py imports but that are not part of    *)
(* the two source files (ImageNormalizer, DocumentDetector, ZoneReader,    *)
(* ResultValidator) are modelled from their contracts in spec.md.          *)
(***************************************************************************)
EXTENDS Integers, Sequences, FiniteSets, TLC

\* ------------------------------------------------------------ constants

FRONT_FIELDS ==
    << "f_nazwisko", "f_imiona", "f_obywatelstwo", "f_data_urodzenia",
       "f_plec", "f_numer_ID", "f_data_waznosci", "f_numer_kodu" >>

BACK_FIELDS ==
    << "b_seria_id", "b_numer_id", "b_numer_ident", "b_data_wydania",
       "b_kto_wydal", "b_imiona_rodzicow", "b_nazwisko_rodowe",
       "b_miejsce_urodzenia", "MRZ" >>

target_width == 1000

target_height == 630

\* Number of calls of the public API a behaviour makes.
MaxCalls == 2

Sides == {"front", "back"}

\* process_front / process_back: the field list handed to _process_side.
FieldList(s) == IF s = "front" THEN FRONT_FIELDS ELSE BACK_FIELDS

Range(q) == {q[i] : i \in 1..Len(q)}

FieldSet(s) == Range(FieldList(s))

IndexOf(q, e) == CHOOSE i \in 1..Len(q) : q[i] = e

Min(a, b) == IF a < b THEN a ELSE b

Empty == << >>

\* F(e), with e evaluated once.
Bind(e, F(_)) == CHOOSE y \in {F(x) : x \in {e}} : TRUE

\* ------------------------------------------------------------ text

IsSpace(c) == c \in {" ", "\n"}

RECURSIVE LStrip(_)
LStrip(t) ==
    IF t = << >> THEN << >>
    ELSE IF IsSpace(Head(t)) THEN LStrip(Tail(t)) ELSE t

RECURSIVE RStrip(_)
RStrip(t) ==
    IF t = << >> THEN << >>
    ELSE IF IsSpace(t[Len(t)]) THEN RStrip(SubSeq(t, 1, Len(t) - 1)) ELSE t

\* str.strip()
Strip(t) == RStrip(LStrip(t))

RECURSIVE Collapse(_)
Collapse(t) ==
    IF t = << >> THEN << >>
    ELSE IF IsSpace(Head(t)) THEN << " " >> \o Collapse(LStrip(t))
    ELSE << Head(t) >> \o Collapse(Tail(t))

\* ' '.join(cleaned.split())
JoinSplit(t) == Bind(Strip(t), Collapse)

UpperChar(c) == IF c = "a" THEN "A" ELSE IF c = "b" THEN "B" ELSE c

UpperAll(t) == [i \in 1..Len(t) |-> UpperChar(t[i])]

\* str.upper()
Upper(t) == Bind(t, UpperAll)

\* ------------------------------------------------------------ state

VARIABLES
    tesseract,   \* TESSERACT_AVAILABLE: pytesseract could be imported
    ocrSeed,     \* which recognition outcome the engine gives for which crop
    zoneFile,    \* the zone layout the zones_*.json files hold
    validator,   \* the behaviour of ResultValidator.validate_all
    orders,      \* the processing orders a call may use ("code": as written)
    remember,    \* whether the first process_both call is kept for comparison
    pc,          \* "idle" | "running"
    kind,        \* the API call in progress: "front" | "back" | "both" | "none"
    sched,       \* the processing order of the call in progress
    input,       \* per side: the encoded image given
    stage,       \* per side: position in _process_side
    path,        \* per side: the stages passed, in order
    image,       \* per side: the decoded image
    corrected,   \* per side: the canonical image
    detected,    \* per side: the detector's flag
    zones,       \* per side: zones_data['zones']
    pending,     \* per side: the fields the loop has still to process
    results,     \* per side: the results dict being built
    calls,       \* per side: the collaborators called so far
    rects,       \* per side: field -> rectangle passed to crop_zone
    cropFrom,    \* per side: the images crops were taken from
    ocrFields,   \* per side: fields the recognition engine was invoked for
    failures,    \* per side: the failures of the taxonomy that occurred
    valIn,       \* per side: the mapping given to validate_all
    valOut,      \* per side: the mapping validate_all returned
    ret,         \* per side: the SideResult returned
    doneOrder,   \* the sides in the order they returned
    combined,    \* the CombinedResult of the last process_both
    exc,         \* an exception reached the caller of the API
    ncalls,      \* API calls completed
    first        \* inputs and result of the first process_both call

envVars == << tesseract, ocrSeed, zoneFile, validator, orders, remember >>

callVars == << pc, kind, sched, input, doneOrder, combined, exc, ncalls, first >>

sideVars ==
    << stage, path, image, corrected, detected, zones, pending, results, calls,
       rects, cropFrom, ocrFields, failures, valIn, valOut, ret >>

vars == << envVars, callVars, sideVars >>

\* ------------------------------------------------------------ collaborators

Inputs == {"bad", "empty", "card", "photo"}

NoneImage == [id |-> "None", width |-> 0, height |-> 0, via |-> "none"]

EmptyDict == [k \in {} |-> Empty]

\* ImageNormalizer.decode_base64: None for undecodable data, otherwise an array
\* (which for "empty" has no pixels).
DecodeBase64(enc) ==
    IF enc = "bad" THEN NoneImage
    ELSE IF enc = "empty"
         THEN [id |-> enc, width |-> 0, height |-> 0, via |-> "decoded"]
         ELSE [id |-> enc, width |-> 1600, height |-> 1200, via |-> "decoded"]

\* ndarray.size of a 3-channel image
ImageSize(img) == img.width * img.height * 3

\* DocumentDetector.process: (canonical image, True) when the document is found,
\* (the image as given, False) otherwise. The document is found in "card" only.
DetectorProcess(img) ==
    IF img.id = "card"
    THEN [image |-> [id |-> img.id, width |-> target_width,
                     height |-> target_height, via |-> "detector"],
          detected |-> TRUE]
    ELSE [image |-> img, detected |-> FALSE]

\* ImageNormalizer.normalize_document: a canonical-size image, not aligned.
NormalizeDocument(img) ==
    [id |-> img.id, width |-> target_width, height |-> target_height,
     via |-> "normalizer"]

ZoneLayouts == {"full", "partial", "none"}

\* The zone of the i-th field of a side in a layout, in thousandths.
\* "full": a zone for every field, the first one {x:0.1, y:0.1, width:0.2,
\* height:0.05}. "partial": by position, a field without a zone, an ordinary zone,
\* a zone of width 0, a zone 0.001 high, a zone starting at the right edge.
ZoneAt(layout, i) ==
    IF layout = "full"
    THEN [x |-> 100, y |-> 100 + 50 * (i - 1), width |-> 200, height |-> 50]
    ELSE IF i % 5 = 1 THEN [x |-> 100, y |-> 100 + 50 * (i - 1), width |-> 200, height |-> 50]
    ELSE IF i % 5 = 2 THEN [x |-> 100, y |-> 100 + 50 * (i - 1), width |-> 0, height |-> 50]
    ELSE IF i % 5 = 3 THEN [x |-> 100, y |-> 100 + 50 * (i - 1), width |-> 200, height |-> 1]
    ELSE [x |-> 1000, y |-> 100 + 50 * (i - 1), width |-> 200, height |-> 50]

ZonePresent(layout, i) ==
    \/ layout = "full"
    \/ layout = "partial" /\ i % 5 # 0

\* ZoneReader.load_zones(side)['zones']
LoadZones(layout, s) ==
    LET fl == FieldList(s)
        present == {fl[i] : i \in {j \in 1..Len(fl) : ZonePresent(layout, j)}}
    IN  [f \in present |-> ZoneAt(layout, IndexOf(fl, f))]

\* DocumentDetector.crop_zone: the rectangle clamped to the image bounds.
CropZone(img, r) ==
    LET x0 == Min(r.x, img.width)
        y0 == Min(r.y, img.height)
        x1 == Min(r.x + r.w, img.width)
        y1 == Min(r.y + r.h, img.height)
    IN  [src |-> img, rect |-> r, x |-> x0, y |-> y0, w |-> x1 - x0, h |-> y1 - y0]

CropSize(c) == c.w * c.h * 3

\* What pytesseract.image_to_string may do with a crop: raise, or return text.
RecognitionOutcomes ==
    << [raises |-> TRUE,  text |-> << >>],
       [raises |-> FALSE, text |-> << " ", "a", "b", " ", "\n" >>],
       [raises |-> FALSE, text |-> << "a", " ", " ", "b", "\n" >>],
       [raises |-> FALSE, text |-> << " ", "\n" >>],
       [raises |-> FALSE, text |-> << "X" >>] >>

Seeds == {0, 1}

\* pytesseract.image_to_string(pil_image, lang='pol+eng', config='--psm 7'):
\* a fixed outcome for each crop of each image.
ImageToString(crop) ==
    LET k == crop.x + crop.y + crop.w + crop.h + ocrSeed
             + (IF crop.src.id = "card" THEN 0 ELSE 1)
    IN  RecognitionOutcomes[(k % Len(RecognitionOutcomes)) + 1]

\* ResultValidator.clean_text: whitespace collapse and case normalization.
CleanText(t) == Bind(t, LAMBDA u : Upper(JoinSplit(u)))

ConformingValidators == {"keep", "format"}

AnyValidators == ConformingValidators \cup {"drop_empty", "add_key"}

\* The format correction of one value: "A B" is rewritten, "X" is invalid.
CorrectValue(v) ==
    IF v = << "A", " ", "B" >> THEN << "A", "B" >>
    ELSE IF v = << "X" >> THEN Empty
    ELSE v

\* ResultValidator.validate_all(mapping) -> mapping. "keep" and "format" correct
\* values field by field; "drop_empty" and "add_key" are mappings with another key
\* set, which the signature allows as well.
ValidateAll(m) ==
    IF validator = "keep" THEN m
    ELSE IF validator = "format" THEN [f \in DOMAIN m |-> CorrectValue(m[f])]
    ELSE IF validator = "drop_empty" THEN [f \in {g \in DOMAIN m : m[g] # Empty} |-> m[f]]
    ELSE ("valid" :> << "1" >>) @@ m

\* ------------------------------------------------------------ OCRService

\* Faulty variant: no try/except around the engine call.
ExtractTextFromRoiUncaught(crop) ==
    IF ~tesseract
    THEN [text |-> Empty, raised |-> FALSE, failure |-> "EngineUnavailable"]
    ELSE LET r == ImageToString(crop)
         IN  IF r.raises
             THEN [text |-> Empty, raised |-> TRUE, failure |-> "RecognitionFailure"]
             ELSE [text |-> Upper(JoinSplit(Strip(r.text))), raised |-> FALSE,
                   failure |-> "none"]

\* The try block of extract_text_from_roi for an engine outcome r, and its
\* except clause.
RoiResult(r) ==
    IF r.raises
    THEN \* except Exception: return ""
         [text |-> Empty, raised |-> FALSE, failure |-> "RecognitionFailure"]
    ELSE [text |-> Upper(JoinSplit(Strip(r.text))), raised |-> FALSE,
          failure |-> "none"]

\* OCRService.extract_text_from_roi
ExtractTextFromRoi(crop) ==
    IF ~tesseract
    THEN [text |-> Empty, raised |-> FALSE, failure |-> "EngineUnavailable"]
    ELSE Bind(ImageToString(crop), RoiResult)

\* ------------------------------------------------------------ IDCardOCRProcessor

\* Faulty variant: the product rounded to the nearest integer (half to even),
\* as Python's round does.
ToPixelsRounded(frac, extent) ==
    LET n == frac * extent
        q == n \div 1000
        r == n % 1000
    IN  IF r > 500 THEN q + 1
        ELSE IF r < 500 THEN q
        ELSE IF q % 2 = 0 THEN q ELSE q + 1

\* int(zone['x'] * self.target_width): the product truncated.
ToPixels(frac, extent) == (frac * extent) \div 1000

\* The absolute coordinates of a zone (x, y, w, h).
ZoneRect(zone) ==
    [x |-> ToPixels(zone.x, target_width),
     y |-> ToPixels(zone.y, target_height),
     w |-> ToPixels(zone.width, target_width),
     h |-> ToPixels(zone.height, target_height)]

\* Faulty variant: only `image is None` is tested.
IsNoneOnly(img) == img = NoneImage

\* image is None or image.size == 0
IsDecodeFailure(img) == img = NoneImage \/ ImageSize(img) = 0

\* Faulty variant: the early return gives an empty dict.
DecodeFailureNoKeys(fl) == EmptyDict

\* {field: "" for field in fields}
DecodeFailureResult(fl) == [f \in Range(fl) |-> Empty]

\* Faulty variant: the detector's image is used whether or not it detected.
CanonicalNoFallback(img) ==
    LET d == DetectorProcess(img)
    IN  [image |-> d.image, detected |-> d.detected, normalized |-> FALSE]

\* corrected, detected = self.detector.process(image), and the fallback.
Canonical(img) ==
    LET d == DetectorProcess(img)
    IN  IF ~d.detected
        THEN [image |-> NormalizeDocument(img), detected |-> FALSE, normalized |-> TRUE]
        ELSE [image |-> d.image, detected |-> TRUE, normalized |-> FALSE]

NoRect == [x |-> 0, y |-> 0, w |-> 0, h |-> 0]

\* text = self.ocr_service.extract_text_from_roi(cropped), then clean_text
RecognizedOutcome(rect, r) ==
    [text |-> CleanText(r.text), rect |-> rect, cropped |-> TRUE, ocr |-> TRUE,
     raised |-> r.raised, failure |-> r.failure]

\* if cropped.size == 0: results[field] = ""; continue
CropOutcome(crop) ==
    IF CropSize(crop) = 0
    THEN [text |-> Empty, rect |-> crop.rect, cropped |-> TRUE, ocr |-> FALSE,
          raised |-> FALSE, failure |-> "CropEmpty"]
    ELSE Bind(ExtractTextFromRoi(crop), LAMBDA r : RecognizedOutcome(crop.rect, r))

\* Faulty variant: the crop is recognized without the test of its size.
FieldOutcomeNoSizeCheck(img, zs, f) ==
    IF f \notin DOMAIN zs
    THEN [text |-> Empty, rect |-> NoRect, cropped |-> FALSE, ocr |-> FALSE,
          raised |-> FALSE, failure |-> "ZoneUndefined"]
    ELSE LET rect == ZoneRect(zs[f])
         IN  RecognizedOutcome(rect, ExtractTextFromRoi(CropZone(img, rect)))

\* The body of the loop over the fields, for one field: the text stored for it,
\* and what was called on the way.
FieldOutcome(img, zs, f) ==
    IF f \notin DOMAIN zs
    THEN [text |-> Empty, rect |-> NoRect, cropped |-> FALSE, ocr |-> FALSE,
          raised |-> FALSE, failure |-> "ZoneUndefined"]
    ELSE Bind(ZoneRect(zs[f]),
              LAMBDA rect : Bind(CropZone(img, rect), CropOutcome))

\* Faulty variant: every field also writes a slot shared by all fields.
StoreFieldShared(res, f, text) == (f :> text) @@ ("last" :> text) @@ res

\* results[field] = text
StoreField(res, f, text) == (f :> text) @@ res

\* Faulty variant: the output of validate_all is not assigned.
ValidationDiscarded(res) == res

\* results = self.validator.validate_all(results)
ValidatedResults(res) == ValidateAll(res)

\* dict.update
Update(a, b) == [k \in DOMAIN a \cup DOMAIN b |-> IF k \in DOMAIN b THEN b[k] ELSE a[k]]

\* Faulty variant: the count is kept on the processor and never reset.
SuccessfulAccumulated(all) ==
    Cardinality({k \in DOMAIN all : all[k] # Empty}) + first.out.extracted_fields

\* sum(1 for v in all_results.values() if v)
Successful(all) == Cardinality({k \in DOMAIN all : all[k] # Empty})

\* Faulty variant: integer division.
ExtractionRateFloorDiv(successful, total) ==
    IF total > 0 THEN [num |-> successful \div total, den |-> 1]
    ELSE [num |-> 0, den |-> 1]

\* successful / total if total > 0 else 0, as a fraction
ExtractionRate(successful, total) ==
    IF total > 0 THEN [num |-> successful, den |-> total] ELSE [num |-> 0, den |-> 1]

\* The dictionary process_both returns for the two side results, the first
\* merged first.
CombinedResult(r1, r2) ==
    LET all == Update(Update(EmptyDict, r1), r2)
        successful == Successful(all)
        total == Cardinality(DOMAIN all)
    IN  [success |-> TRUE, data |-> all, extracted_fields |-> successful,
         total_fields |-> total,
         extraction_rate |-> ExtractionRate(successful, total)]

NoCombined ==
    [success |-> FALSE, data |-> EmptyDict, extracted_fields |-> 0,
     total_fields |-> 0, extraction_rate |-> [num |-> 0, den |-> 1]]

NoCall == [n |-> 0, front |-> "none", back |-> "none", out |-> NoCombined]

\* ------------------------------------------------------------ initial state

SideInit(st) ==
    /\ stage = st
    /\ path = [s \in Sides |-> << >>]
    /\ image = [s \in Sides |-> NoneImage]
    /\ corrected = [s \in Sides |-> NoneImage]
    /\ detected = [s \in Sides |-> FALSE]
    /\ zones = [s \in Sides |-> EmptyDict]
    /\ pending = [s \in Sides |-> {}]
    /\ results = [s \in Sides |-> EmptyDict]
    /\ calls = [s \in Sides |-> {}]
    /\ rects = [s \in Sides |-> EmptyDict]
    /\ cropFrom = [s \in Sides |-> {}]
    /\ ocrFields = [s \in Sides |-> {}]
    /\ failures = [s \in Sides |-> {}]
    /\ valIn = [s \in Sides |-> EmptyDict]
    /\ valOut = [s \in Sides |-> EmptyDict]
    /\ ret = [s \in Sides |-> EmptyDict]

InitWith(engines, layouts, validators, os, rem) ==
    /\ tesseract \in engines
    /\ ocrSeed \in (IF tesseract THEN Seeds ELSE {0})
    /\ zoneFile \in layouts
    /\ validator \in validators
    /\ orders = os
    /\ remember = rem
    /\ pc = "idle"
    /\ kind = "none"
    /\ sched = "code"
    /\ input = [s \in Sides |-> "none"]
    /\ doneOrder = << >>
    /\ combined = NoCombined
    /\ exc = FALSE
    /\ ncalls = 0
    /\ first = NoCall
    /\ SideInit([s \in Sides |-> "Idle"])

Init == InitWith(BOOLEAN, ZoneLayouts, ConformingValidators, {"code"}, FALSE)

\* ------------------------------------------------------------ actions

\* A call starts with fresh locals.
SideReset(st) ==
    /\ stage' = st
    /\ path' = [s \in Sides |-> << >>]
    /\ image' = [s \in Sides |-> NoneImage]
    /\ corrected' = [s \in Sides |-> NoneImage]
    /\ detected' = [s \in Sides |-> FALSE]
    /\ zones' = [s \in Sides |-> EmptyDict]
    /\ pending' = [s \in Sides |-> {}]
    /\ results' = [s \in Sides |-> EmptyDict]
    /\ calls' = [s \in Sides |-> {}]
    /\ rects' = [s \in Sides |-> EmptyDict]
    /\ cropFrom' = [s \in Sides |-> {}]
    /\ ocrFields' = [s \in Sides |-> {}]
    /\ failures' = [s \in Sides |-> {}]
    /\ valIn' = [s \in Sides |-> EmptyDict]
    /\ valOut' = [s \in Sides |-> EmptyDict]
    /\ ret' = [s \in Sides |-> EmptyDict]

\* Calls in the order of the code are bounded by MaxCalls; a call in another
\* order is made once.
MayCall == pc = "idle" /\ ncalls < (IF "code" \in orders THEN MaxCalls ELSE 1)

\* process_front(image_base64) / process_back(image_base64) is called.
CallSide(s, enc) ==
    /\ MayCall
    /\ pc' = "running"
    /\ kind' = s
    /\ sched' \in orders \ {"sides"}
    /\ input' = [t \in Sides |-> IF t = s THEN enc ELSE "none"]
    /\ doneOrder' = << >>
    /\ combined' = NoCombined
    /\ SideReset([t \in Sides |-> IF t = s THEN "Start" ELSE "Idle"])
    /\ UNCHANGED << envVars, exc, ncalls, first >>

\* process_both(front_base64, back_base64) is called.
CallBoth(f, b) ==
    /\ MayCall
    /\ pc' = "running"
    /\ kind' = "both"
    /\ sched' \in orders
    /\ input' = [front |-> f, back |-> b]
    /\ doneOrder' = << >>
    /\ combined' = NoCombined
    /\ SideReset([t \in Sides |-> "Start"])
    /\ UNCHANGED << envVars, exc, ncalls, first >>

\* Side s may take its next step: as written, process_back starts when
\* process_front has returned; in the order "sides" the two sides interleave.
Runnable(s) ==
    /\ pc = "running"
    /\ \/ sched = "sides"
       \/ s = "front"
       \/ stage["front"] \in {"Idle", "Done"}

\* image = self.normalizer.decode_base64(image_base64), and the early return.
Decode(s) ==
    /\ Runnable(s)
    /\ stage[s] = "Start"
    /\ \E img \in {DecodeBase64(input[s])} :
           /\ image' = [image EXCEPT ![s] = img]
           /\ calls' = [calls EXCEPT ![s] = @ \cup {"decode_base64"}]
           /\ IF IsDecodeFailure(img)
              THEN /\ ret' = [ret EXCEPT ![s] = DecodeFailureResult(FieldList(s))]
                   /\ stage' = [stage EXCEPT ![s] = "Done"]
                   /\ path' = [path EXCEPT ![s] = Append(@, "Done")]
                   /\ failures' = [failures EXCEPT ![s] = @ \cup {<< "DecodeFailure", "*" >>}]
                   /\ doneOrder' = Append(doneOrder, s)
              ELSE /\ stage' = [stage EXCEPT ![s] = "Decoded"]
                   /\ path' = [path EXCEPT ![s] = Append(@, "Decoded")]
                   /\ UNCHANGED << ret, failures, doneOrder >>
    /\ UNCHANGED << envVars, pc, kind, sched, input, combined, exc, ncalls, first,
                    corrected, detected, zones, pending, results, rects, cropFrom,
                    ocrFields, valIn, valOut >>

\* Detect and correct document perspective; the normalizer when detection failed.
Correct(s) ==
    /\ Runnable(s)
    /\ stage[s] = "Decoded"
    /\ \E c \in {Canonical(image[s])} :
           /\ corrected' = [corrected EXCEPT ![s] = c.image]
           /\ detected' = [detected EXCEPT ![s] = c.detected]
           /\ calls' = [calls EXCEPT ![s] =
                  @ \cup {"detector.process"}
                    \cup (IF c.normalized THEN {"normalize_document"} ELSE {})]
           /\ failures' = [failures EXCEPT ![s] =
                  @ \cup (IF DetectorProcess(image[s]).detected
                          THEN {} ELSE {<< "DetectionFailure", "*" >>})]
    /\ stage' = [stage EXCEPT ![s] = "GeometryCorrected"]
    /\ path' = [path EXCEPT ![s] = Append(@, "GeometryCorrected")]
    /\ UNCHANGED << envVars, callVars, image, zones, pending, results, rects,
                    cropFrom, ocrFields, valIn, valOut, ret >>

\* zones = self.zone_reader.load_zones(side)['zones']; results = {}
LoadZonesStep(s) ==
    /\ Runnable(s)
    /\ stage[s] = "GeometryCorrected"
    /\ zones' = [zones EXCEPT ![s] = LoadZones(zoneFile, s)]
    /\ results' = [results EXCEPT ![s] = EmptyDict]
    /\ pending' = [pending EXCEPT ![s] = FieldSet(s)]
    /\ calls' = [calls EXCEPT ![s] = @ \cup {"load_zones"}]
    /\ stage' = [stage EXCEPT ![s] = "ZonesLoaded"]
    /\ path' = [path EXCEPT ![s] = Append(@, "ZonesLoaded")]
    /\ UNCHANGED << envVars, callVars, image, corrected, detected, rects, cropFrom,
                    ocrFields, failures, valIn, valOut, ret >>

\* The field the loop takes next: the first pending field of the list; in the
\* order "fields", any pending field.
NextFields(s) ==
    IF sched = "fields" THEN pending[s]
    ELSE {f \in pending[s] :
            \A g \in pending[s] : IndexOf(FieldList(s), f) <= IndexOf(FieldList(s), g)}

\* One iteration of the loop over the fields. An exception of the body would
\* leave _process_side and the API call.
ExtractField(s) ==
    /\ Runnable(s)
    /\ stage[s] = "ZonesLoaded"
    /\ \E f \in NextFields(s) :
         \E o \in {FieldOutcome(corrected[s], zones[s], f)}, last \in {pending[s] = {f}} :
             /\ pending' = [pending EXCEPT ![s] = @ \ {f}]
             /\ rects' = [rects EXCEPT ![s] = IF o.cropped THEN (f :> o.rect) @@ @ ELSE @]
             /\ cropFrom' = [cropFrom EXCEPT ![s] =
                    IF o.cropped THEN @ \cup {corrected[s]} ELSE @]
             /\ ocrFields' = [ocrFields EXCEPT ![s] = IF o.ocr THEN @ \cup {f} ELSE @]
             /\ calls' = [calls EXCEPT ![s] =
                    @ \cup (IF o.cropped THEN {"crop_zone"} ELSE {})
                      \cup (IF o.ocr THEN {"extract_text_from_roi"} ELSE {})
                      \cup (IF o.ocr /\ ~o.raised THEN {"clean_text"} ELSE {})]
             /\ failures' = [failures EXCEPT ![s] =
                    IF o.failure = "none" THEN @ ELSE @ \cup {<< o.failure, f >>}]
             /\ IF o.raised
                THEN /\ stage' = [t \in Sides |-> IF stage[t] = "Done" THEN "Done" ELSE "Raised"]
                     /\ path' = [path EXCEPT ![s] = Append(@, "Raised")]
                     /\ pc' = "idle"
                     /\ exc' = TRUE
                     /\ ncalls' = ncalls + 1
                     /\ UNCHANGED results
                ELSE /\ results' = [results EXCEPT ![s] = StoreField(@, f, o.text)]
                     /\ stage' = [stage EXCEPT ![s] = IF last THEN "FieldsExtracted" ELSE @]
                     /\ path' = [path EXCEPT ![s] = IF last THEN Append(@, "FieldsExtracted") ELSE @]
                     /\ UNCHANGED << pc, exc, ncalls >>
    /\ UNCHANGED << envVars, kind, sched, input, doneOrder, combined, first, image,
                    corrected, detected, zones, valIn, valOut, ret >>

\* results = self.validator.validate_all(results)
Validate(s) ==
    /\ Runnable(s)
    /\ stage[s] = "FieldsExtracted"
    /\ valIn' = [valIn EXCEPT ![s] = results[s]]
    /\ valOut' = [valOut EXCEPT ![s] = ValidateAll(results[s])]
    /\ results' = [results EXCEPT ![s] = ValidatedResults(results[s])]
    /\ calls' = [calls EXCEPT ![s] = @ \cup {"validate_all"}]
    /\ stage' = [stage EXCEPT ![s] = "Validated"]
    /\ path' = [path EXCEPT ![s] = Append(@, "Validated")]
    /\ UNCHANGED << envVars, callVars, image, corrected, detected, zones, pending,
                    rects, cropFrom, ocrFields, failures, ret >>

\* return results
ReturnSide(s) ==
    /\ Runnable(s)
    /\ stage[s] = "Validated"
    /\ ret' = [ret EXCEPT ![s] = results[s]]
    /\ stage' = [stage EXCEPT ![s] = "Done"]
    /\ path' = [path EXCEPT ![s] = Append(@, "Done")]
    /\ doneOrder' = Append(doneOrder, s)
    /\ UNCHANGED << envVars, pc, kind, sched, input, combined, exc, ncalls, first,
                    image, corrected, detected, zones, pending, results, calls, rects,
                    cropFrom, ocrFields, failures, valIn, valOut >>

\* process_front / process_back returns what _process_side returned.
ReturnSingle ==
    /\ pc = "running"
    /\ kind \in Sides
    /\ stage[kind] = "Done"
    /\ pc' = "idle"
    /\ ncalls' = ncalls + 1
    /\ UNCHANGED << envVars, kind, sched, input, doneOrder, combined, exc, first, sideVars >>

\* process_both combines the two side results and returns.
ProcessBothReturn ==
    /\ pc = "running"
    /\ kind = "both"
    /\ \A s \in Sides : stage[s] = "Done"
    /\ \E out \in {CombinedResult(ret[doneOrder[1]], ret[doneOrder[2]])} :
           /\ combined' = out
           /\ first' = IF remember /\ first = NoCall
                       THEN [n |-> ncalls + 1, front |-> input["front"],
                             back |-> input["back"], out |-> out]
                       ELSE first
    /\ pc' = "idle"
    /\ ncalls' = ncalls + 1
    /\ UNCHANGED << envVars, kind, sched, input, doneOrder, exc, sideVars >>

Next ==
    \/ \E s \in Sides, enc \in Inputs : CallSide(s, enc)
    \/ \E f \in Inputs, b \in Inputs : CallBoth(f, b)
    \/ \E s \in Sides : Decode(s)
    \/ \E s \in Sides : Correct(s)
    \/ \E s \in Sides : LoadZonesStep(s)
    \/ \E s \in Sides : ExtractField(s)
    \/ \E s \in Sides : Validate(s)
    \/ \E s \in Sides : ReturnSide(s)
    \/ ReturnSingle
    \/ ProcessBothReturn

Spec == Init /\ [][Next]_vars

\* ------------------------------------------------------------ other specifications

\* validate_all may return any mapping.
InitAnyValidator == InitWith(BOOLEAN, ZoneLayouts, AnyValidators, {"code"}, FALSE)

SpecAnyValidator == InitAnyValidator /\ [][Next]_vars

\* The fields of a side in any order, or the two sides interleaved.
InitAnyOrder ==
    InitWith({TRUE}, {"full", "partial"}, {"format"}, {"fields", "sides"}, FALSE)

SpecAnyOrder == InitAnyOrder /\ [][Next]_vars

\* Repeated calls, the first process_both call remembered.
InitRepeat == InitWith(BOOLEAN, ZoneLayouts, ConformingValidators, {"code"}, TRUE)

SpecRepeat == InitRepeat /\ [][Next]_vars

\* The calls run to completion: a step that can be taken is taken.
FairSpec == Spec /\ WF_vars(Next)

\* ------------------------------------------------------------ the code, in one piece

\* for field in fields: ... in the order of the list
RECURSIVE LoopInOrder(_, _, _, _, _)
LoopInOrder(fl, i, img, zs, res) ==
    IF i > Len(fl) THEN res
    ELSE LoopInOrder(fl, i + 1, img, zs,
                     StoreField(res, fl[i], FieldOutcome(img, zs, fl[i]).text))

\* _process_side(image_base64, side, fields)
ProcessSide(s, enc) ==
    LET img == DecodeBase64(enc)
    IN  IF IsDecodeFailure(img) THEN DecodeFailureResult(FieldList(s))
        ELSE ValidatedResults(
                 LoopInOrder(FieldList(s), 1, Canonical(img).image,
                             LoadZones(zoneFile, s), EmptyDict))

\* process_both(front_base64, back_base64)
ProcessBoth(f, b) == CombinedResult(ProcessSide("front", f), ProcessSide("back", b))

\* ------------------------------------------------------------ properties

AllFields == FieldSet("front") \cup FieldSet("back")

AllEmpty(s) == [f \in FieldSet(s) |-> Empty]

DecodeFails(enc) == enc \in {"bad", "empty"}

FullPath ==
    << "Decoded", "GeometryCorrected", "ZonesLoaded", "FieldsExtracted",
       "Validated", "Done" >>

FieldFailures == {"ZoneUndefined", "CropEmpty", "EngineUnavailable", "RecognitionFailure"}

C2_NoPropagation ==
    /\ ~exc
    /\ \A s \in Sides :
        /\ stage[s] # "Raised"
        /\ \A fl \in failures[s] :
            /\ fl[1] = "DecodeFailure" => stage[s] = "Done" /\ ret[s] = AllEmpty(s)
            /\ fl[1] = "DetectionFailure" => "normalize_document" \in calls[s]
            /\ fl[1] \in FieldFailures =>
                 /\ fl[2] \in DOMAIN results[s] /\ results[s][fl[2]] = Empty
                 /\ stage[s] = "Done" =>
                      fl[2] \in DOMAIN ret[s] /\ ret[s][fl[2]] = Empty

C2_Witness ==
    \E s \in Sides :
        /\ stage[s] = "Done"
        /\ pc = "idle"
        /\ {fl[1] : fl \in failures[s]} =
               {"DetectionFailure", "ZoneUndefined", "CropEmpty", "RecognitionFailure"}
        /\ \E t \in Sides : << "DecodeFailure", "*" >> \in failures[t]

\* C3: when decoding fails or yields an empty image, the side returns every field
\* of its list as the empty string and nothing but the decoder has been called;
\* process_both with such an input still returns a CombinedResult over all fields.
C3_DecodeFailure ==
    /\ \A s \in Sides :
        (stage[s] = "Done" /\ DecodeFails(input[s])) =>
            /\ ret[s] = AllEmpty(s)
            /\ calls[s] = {"decode_base64"}
    /\ (combined # NoCombined /\ \E s \in Sides : DecodeFails(input[s])) =>
            /\ combined.success
            /\ DOMAIN combined.data = AllFields
            /\ \A s \in Sides : DecodeFails(input[s]) =>
                   \A f \in FieldSet(s) : combined.data[f] = Empty

C3_Witness ==
    /\ combined # NoCombined
    /\ input["front"] = "empty"
    /\ input["back"] = "card"
    /\ combined.extracted_fields > 0
    /\ calls["front"] = {"decode_base64"}

\* C4: in every CombinedResult total_fields is |FRONT_FIELDS| + |BACK_FIELDS| = 17,
\* extracted_fields is the number of non-empty values of data, and
\* extraction_rate is extracted_fields / total_fields (0 when total_fields is 0).
C4_Accounting ==
    combined # NoCombined =>
        /\ combined.total_fields = Len(FRONT_FIELDS) + Len(BACK_FIELDS)
        /\ combined.total_fields = 17
        /\ combined.extracted_fields =
               Cardinality({k \in DOMAIN combined.data : combined.data[k] # Empty})
        /\ 0 <= combined.extracted_fields
        /\ combined.extracted_fields <= combined.total_fields
        /\ combined.extraction_rate.den > 0
        /\ IF combined.total_fields > 0
           THEN combined.extraction_rate.num * combined.total_fields
                    = combined.extracted_fields * combined.extraction_rate.den
           ELSE combined.extraction_rate.num = 0

C4_Witness ==
    /\ combined # NoCombined
    /\ combined.extracted_fields > 1
    /\ combined.extracted_fields < combined.total_fields

Rounded(z) ==
    [x |-> ToPixelsRounded(z.x, target_width),
     y |-> ToPixelsRounded(z.y, target_height),
     w |-> ToPixelsRounded(z.width, target_width),
     h |-> ToPixelsRounded(z.height, target_height)]

\* n is the integer part of frac * extent / 1000
IsTruncation(n, frac, extent) == n * 1000 <= frac * extent /\ frac * extent < (n + 1) * 1000

SpecExampleZone == [x |-> 100, y |-> 100, width |-> 200, height |-> 50]

\* C5 as stated: the rectangle passed to the crop is the zone scaled by the frame
\* size and rounded; for 1000x630 and {0.1, 0.1, 0.2, 0.05} it is (100, 63, 200, 32).
C5_Original ==
    \A s \in Sides : \A f \in DOMAIN rects[s] :
        /\ rects[s][f] = Rounded(zones[s][f])
        /\ zones[s][f] = SpecExampleZone =>
               rects[s][f] = [x |-> 100, y |-> 63, w |-> 200, h |-> 32]

\* C5 as amended: every field of the list that is in the zone layout is cropped,
\* and the rectangle passed to the crop is the zone scaled by the frame size and
\* truncated; for 1000x630 and {0.1, 0.1, 0.2, 0.05} it is (100, 63, 200, 31).
C5_Truncated ==
    \A s \in Sides :
        /\ DOMAIN rects[s] \subseteq DOMAIN zones[s]
        /\ stage[s] \in {"FieldsExtracted", "Validated"} =>
               DOMAIN rects[s] = DOMAIN zones[s] \cap FieldSet(s)
        /\ \A f \in DOMAIN rects[s] :
            LET r == rects[s][f]
                z == zones[s][f]
            IN  /\ IsTruncation(r.x, z.x, target_width)
                /\ IsTruncation(r.y, z.y, target_height)
                /\ IsTruncation(r.w, z.width, target_width)
                /\ IsTruncation(r.h, z.height, target_height)
                /\ z = SpecExampleZone =>
                       r = [x |-> 100, y |-> 63, w |-> 200, h |-> 31]

C5_Witness ==
    \E s \in Sides : \E f \in DOMAIN rects[s] :
        /\ zones[s][f] = SpecExampleZone
        /\ rects[s][f] = [x |-> 100, y |-> 63, w |-> 200, h |-> 31]
        /\ stage[s] = "Done"

\* C6: when the image decodes and the detector reports that detection failed, the
\* fallback normalizer is called on the decoded image and its output is the image
\* every crop is taken from; when detection succeeds the detector's image is used
\* and the normalizer is not called. Either way the side goes on through zone
\* loading, extraction and validation and returns without an exception.
C6_Fallback ==
    /\ ~exc
    /\ \A s \in Sides :
        "detector.process" \in calls[s] =>
            /\ IF DetectorProcess(image[s]).detected
               THEN /\ "normalize_document" \notin calls[s]
                    /\ corrected[s] = DetectorProcess(image[s]).image
               ELSE /\ "normalize_document" \in calls[s]
                    /\ corrected[s] = NormalizeDocument(image[s])
            /\ cropFrom[s] \subseteq {corrected[s]}
            /\ stage[s] = "Done" =>
                 /\ path[s] = FullPath
                 /\ {"load_zones", "validate_all"} \subseteq calls[s]
                 /\ ret[s] = valOut[s]

C6_Witness ==
    \E s \in Sides :
        /\ stage[s] = "Done"
        /\ input[s] = "photo"
        /\ ~detected[s]
        /\ cropFrom[s] = {NormalizeDocument(DecodeBase64("photo"))}
        /\ \E f \in FieldSet(s) : ret[s][f] # Empty

\* The crop of field f of side s has no pixels.
ZeroAreaCrop(s, f) ==
    /\ f \in DOMAIN rects[s]
    /\ \/ rects[s][f].w = 0
       \/ rects[s][f].h = 0
       \/ CropSize(CropZone(corrected[s], rects[s][f])) = 0

\* C7: a field of the list that is absent from the zone layout, or whose crop
\* rectangle has zero width or height, is the empty string in the returned
\* SideResult; no exception is raised and the engine is not invoked for it.
C7_EmptyWithoutRecognition ==
    /\ ~exc
    /\ \A s \in Sides : \A f \in FieldSet(s) :
        ("load_zones" \in calls[s] /\ f \notin pending[s]
           /\ (f \notin DOMAIN zones[s] \/ ZeroAreaCrop(s, f))) =>
            /\ f \notin ocrFields[s]
            /\ f \in DOMAIN results[s] /\ results[s][f] = Empty
            /\ stage[s] = "Done" => f \in DOMAIN ret[s] /\ ret[s][f] = Empty

C7_Witness ==
    \E s \in Sides :
        /\ stage[s] = "Done"
        /\ \E f \in FieldSet(s) : f \notin DOMAIN zones[s] /\ ret[s][f] = Empty
        /\ \E f \in FieldSet(s) : f \in DOMAIN rects[s] /\ rects[s][f].w = 0
                                  /\ ret[s][f] = Empty
        /\ \E f \in FieldSet(s) : f \in DOMAIN rects[s] /\ rects[s][f].h = 0
                                  /\ ret[s][f] = Empty
        /\ \E f \in FieldSet(s) : f \in ocrFields[s] /\ ret[s][f] # Empty

\* C8: a process_both call with the inputs of the first process_both call returns
\* the CombinedResult the first call returned.
C8_Idempotent ==
    (combined # NoCombined /\ first # NoCall
       /\ input["front"] = first.front /\ input["back"] = first.back) =>
        combined = first.out

C8_Witness ==
    /\ first.n = 1
    /\ ncalls = 2
    /\ pc = "idle"
    /\ combined # NoCombined
    /\ input["front"] = first.front
    /\ input["back"] = first.back
    /\ combined.extracted_fields > 0
    /\ combined = first.out

\* C9 as stated: every side that returns has passed through all the stages
\* Decoded, GeometryCorrected, ZonesLoaded, FieldsExtracted, Validated, Done, and
\* returns the output of validate_all.
C9_Original ==
    \A s \in Sides :
        stage[s] = "Done" =>
            /\ path[s] = FullPath
            /\ "validate_all" \in calls[s]
            /\ ret[s] = valOut[s]

\* The order of the stages of a side, for an input that decodes and for one that
\* does not.
C9_Stages ==
    \A s \in Sides :
        /\ stage[s] # "Raised"
        /\ stage[s] = "Validated" =>
               pending[s] = {} /\ DOMAIN valIn[s] = FieldSet(s)
        /\ stage[s] = "Done" =>
               IF DecodeFails(input[s])
               THEN path[s] = << "Done" >> /\ "validate_all" \notin calls[s]
               ELSE /\ path[s] = FullPath
                    /\ DOMAIN valIn[s] = FieldSet(s)
                    /\ valOut[s] = ValidateAll(valIn[s])
                    /\ ret[s] = valOut[s]

\* C9 as amended: a side whose input decodes to a non-empty image passes through
\* Decoded, GeometryCorrected, ZonesLoaded, FieldsExtracted, Validated, Done in
\* that order, validation runs when all fields of the list have been built and
\* its output is the value returned; a side whose input does not decode goes
\* straight to Done without validation. Every side that starts reaches Done.
C9_Pipeline ==
    /\ []C9_Stages
    /\ \A s \in Sides : (stage[s] = "Start") ~> (stage[s] = "Done")

C9_Witness ==
    \E s \in Sides :
        /\ stage[s] = "Done"
        /\ path[s] = FullPath
        /\ ret[s] = valOut[s]
        /\ valOut[s] # valIn[s]
        /\ \E t \in Sides : stage[t] = "Done" /\ path[t] = << "Done" >>

\* C10: with the fields of a side taken in any order, or the two sides
\* interleaved, every value built is the one the loop builds in the order of the
\* list, and the SideResults and the CombinedResult are those of the code run in
\* its own order.
C10_OrderIndependent ==
    /\ \A s \in Sides :
        /\ stage[s] = "ZonesLoaded" =>
             \A f \in DOMAIN results[s] :
                 results[s][f] =
                     LoopInOrder(FieldList(s), 1, corrected[s], zones[s], EmptyDict)[f]
        /\ stage[s] = "Done" => ret[s] = ProcessSide(s, input[s])
    /\ combined # NoCombined => combined = ProcessBoth(input["front"], input["back"])

C10_Witness ==
    /\ sched = "fields"
    /\ kind = "both"
    /\ stage["back"] = "ZonesLoaded"
    /\ BACK_FIELDS[1] \in pending["back"]
    /\ BACK_FIELDS[2] \in pending["back"]
    /\ BACK_FIELDS[9] \in DOMAIN results["back"]
    /\ results["back"][BACK_FIELDS[9]] # Empty
    /\ \E f \in FieldSet("front") : ret["front"][f] # Empty

====
